---------------------------- MODULE Spec2Model ----------------------------
(***************************************************************************)
(* Model of the two MP4 clipping tools of this repository:                 *)
(*   src/mp4Clippingv1.1.py  (PyQt5 + moviepy)                             *)
(*   src/mp4Clippingv1.2.py  (PyQt5 + OpenCV)                              *)
(* The state is the fields of VideoWidget and MainWindow; every Qt event   *)
(* handler or slot is one action.  The variable `version` fixes which of   *)
(* the two scripts is running.                                             *)
(*                                                                         *)
(* Optional values (Python None) are sequences of length 0 or 1:           *)
(* None == <<>>, and a set value v is <<v>>.                               *)
(***************************************************************************)
EXTENDS Integers, Sequences, FiniteSets, TLC

VARIABLES
    version,             \* "v1.1" or "v1.2": the script that runs
    widget_size,         \* VideoWidget.size(), <<width, height>>
    dragging,            \* VideoWidget.dragging
    start_pos,           \* VideoWidget.start_pos  (optional QPoint)
    end_pos,             \* VideoWidget.end_pos    (optional QPoint)
    original_pixmap,     \* v1.2 VideoWidget.original_pixmap  (optional)
    displayed_pixmap,    \* v1.2 VideoWidget.displayed_pixmap (optional)
    video_display_rect,  \* v1.2 VideoWidget.video_display_rect (optional QRect)
    pixmap_img,          \* v1.1 VideoWidget.pixmap_img (optional)
    video_path,          \* MainWindow.video_path (optional file name)
    cap,                 \* v1.2 MainWindow.cap (optional capture handle)
    clip,                \* v1.1 MainWindow.clip (optional file name)
    frame_count,         \* v1.2 MainWindow.frame_count
    orig_w,              \* MainWindow.orig_w
    orig_h,              \* MainWindow.orig_h
    crop_btn,            \* crop_btn.isEnabled()
    clear_btn,           \* v1.2 clear_btn.isEnabled()
    selection_info_label,\* v1.2 text of selection_info_label
    preview_open,        \* v1.2 number of preview VideoCapture handles open
    closed,              \* the window was closed
    last                 \* what the most recent slot did (dialogs, calls)

vars == <<version, widget_size, dragging, start_pos, end_pos, original_pixmap,
          displayed_pixmap, video_display_rect, pixmap_img, video_path, cap,
          clip, frame_count, orig_w, orig_h, crop_btn, clear_btn,
          selection_info_label, preview_open, closed, last>>

None == <<>>
Some(v) == <<v>>
IsSet(o) == Len(o) = 1
Val(o) == o[1]

Max(a, b) == IF a >= b THEN a ELSE b
Min(a, b) == IF a <= b THEN a ELSE b

(***************************************************************************)
(* Bounds of the model.                                                    *)
(***************************************************************************)
\* mouse positions lie on the two diagonals of a (GridN+1) x (GridN+1)
\* lattice over the widget
GridN == 2

(***************************************************************************)
(* Program constants.                                                      *)
(***************************************************************************)
DisplayMargin == 20      \* update_display: widget size - 20
MinSelection == 5        \* get_selection_info: width() < 5 or height() < 5
ProgressEvery == 30      \* process_crop: frame_idx % 30 == 0

(***************************************************************************)
(* The files that can be dropped on the window.  Every one of them exists  *)
(* (dropEvent checks os.path.isfile).                                      *)
(*   a.mp4  a 3x2 video, 60 frames, metadata right                         *)
(*   b.mp4  a 134x120 video, 30 frames, whose container reports no frame   *)
(*          count (CAP_PROP_FRAME_COUNT = 0)                               *)
(*   c.mp4  opens, reports 8x6, but no frame can be decoded                *)
(*   d.txt  not a video: the decoder cannot open it                        *)
(***************************************************************************)
Files == {"a.mp4", "b.mp4", "c.mp4", "d.txt"}

FileOpens(f) == f # "d.txt"
FileWidth(f) == CASE f = "a.mp4" -> 3 [] f = "b.mp4" -> 134 [] f = "c.mp4" -> 8 [] OTHER -> 0
FileHeight(f) == CASE f = "a.mp4" -> 2 [] f = "b.mp4" -> 120 [] f = "c.mp4" -> 6 [] OTHER -> 0
\* CAP_PROP_FRAME_COUNT as the container reports it
FileFrameCount(f) == CASE f = "a.mp4" -> 60 [] OTHER -> 0
\* the frames read() can actually decode
FileFrames(f) == CASE f = "a.mp4" -> 60 [] f = "b.mp4" -> 30 [] OTHER -> 0

\* the sizes the layout can give the video widget
WidgetSizes == { <<67, 60>>, <<69, 52>> }

\* the save dialog returns "" when cancelled
OutPaths == {"", "out.mp4"}

(***************************************************************************)
(* Qt geometry.  A QPoint is [x, y]; a QRect is [x1, y1, x2, y2] with      *)
(* inclusive corners, as Qt 5 stores it, so width() = x2 - x1 + 1.         *)
(***************************************************************************)
QPoint(x, y) == [x |-> x, y |-> y]

\* PyQt5 gives QPoint a __bool__ that is "not isNull()": QPoint(0, 0) is
\* false in `if self.start_pos and self.end_pos`
PointTruthy(o) == IsSet(o) /\ ~(Val(o).x = 0 /\ Val(o).y = 0)

\* QRect(topLeft, bottomRight)
QRectOfPoints(p1, p2) == [x1 |-> p1.x, y1 |-> p1.y, x2 |-> p2.x, y2 |-> p2.y]
\* QRect(x, y, width, height)
QRectXYWH(x, y, w, h) == [x1 |-> x, y1 |-> y, x2 |-> x + w - 1, y2 |-> y + h - 1]
\* QRect()
NullRect == [x1 |-> 0, y1 |-> 0, x2 |-> -1, y2 |-> -1]

RectWidth(r) == r.x2 - r.x1 + 1
RectHeight(r) == r.y2 - r.y1 + 1
RectIsNull(r) == r.x2 = r.x1 - 1 /\ r.y2 = r.y1 - 1
RectIsValid(r) == r.x1 <= r.x2 /\ r.y1 <= r.y2

\* QRect::normalized() of Qt 5: corners are swapped only when x2 < x1 - 1
normalized(r) ==
    [x1 |-> IF r.x2 < r.x1 - 1 THEN r.x2 ELSE r.x1,
     x2 |-> IF r.x2 < r.x1 - 1 THEN r.x1 ELSE r.x2,
     y1 |-> IF r.y2 < r.y1 - 1 THEN r.y2 ELSE r.y1,
     y2 |-> IF r.y2 < r.y1 - 1 THEN r.y1 ELSE r.y2]

\* QRect::intersected(): QRect::operator& of Qt 5
intersected(a, b) ==
    IF RectIsNull(a) \/ RectIsNull(b) THEN NullRect
    ELSE
      LET l1 == IF a.x2 - a.x1 + 1 < 0 THEN a.x2 ELSE a.x1
          r1 == IF a.x2 - a.x1 + 1 < 0 THEN a.x1 ELSE a.x2
          l2 == IF b.x2 - b.x1 + 1 < 0 THEN b.x2 ELSE b.x1
          r2 == IF b.x2 - b.x1 + 1 < 0 THEN b.x1 ELSE b.x2
          t1 == IF a.y2 - a.y1 + 1 < 0 THEN a.y2 ELSE a.y1
          b1 == IF a.y2 - a.y1 + 1 < 0 THEN a.y1 ELSE a.y2
          t2 == IF b.y2 - b.y1 + 1 < 0 THEN b.y2 ELSE b.y1
          b2 == IF b.y2 - b.y1 + 1 < 0 THEN b.y1 ELSE b.y2
      IN IF l1 > r2 \/ l2 > r1 \/ t1 > b2 \/ t2 > b1 THEN NullRect
         ELSE [x1 |-> Max(l1, l2), x2 |-> Min(r1, r2),
               y1 |-> Max(t1, t2), y2 |-> Min(b1, b2)]

\* scaled(w, h, Qt.KeepAspectRatio): QSize::scaled() in integer arithmetic,
\* then each side raised to at least 1 (QPixmap::scaled, QImage::scaled)
scaled(pw, ph, w, h) ==
    IF pw = 0 \/ ph = 0 THEN <<Max(w, 1), Max(h, 1)>>
    ELSE LET rw == (h * pw) \div ph
         IN IF rw <= w THEN <<Max(rw, 1), Max(h, 1)>>
            ELSE <<Max(w, 1), Max((w * ph) \div pw, 1)>>

(***************************************************************************)
(* Python float arithmetic.  The code computes                             *)
(*     scale = orig / disp          (true division: an IEEE-754 double)    *)
(*     int(p * scale)               (v1.2)                                 *)
(*     int(round(p * scale))        (v1.1)                                 *)
(* with two roundings to 53 significant bits.  For the integers a, b, p of *)
(* a video or a widget (below 2^12) the result is decided exactly with     *)
(* small integers:                                                         *)
(*  - when the exact value p*a/b is neither an integer nor a half, the     *)
(*    rounding errors (relative 2^-52) are far smaller than its distance   *)
(*    1/(2b) to the next integer or half, and int/round of the double is   *)
(*    int/round of the exact value;                                        *)
(*  - otherwise everything depends on the side the double falls on.  With  *)
(*    2^e <= a/b < 2^(e+1) and s = 52 - e, fl(a/b) = N * 2^-s where N is   *)
(*    a * 2^s / b rounded to the nearest integer, ties to even; p * N      *)
(*    differs from the exact p*a/b * 2^s by the integer D = p * (N -       *)
(*    a*2^s/b), and the product is rounded to a multiple of the spacing    *)
(*    u = 2^g of doubles next to it (u/2 below a power of two).            *)
(* FloatSide is the sign of  fl(p * fl(a/b)) - p*a/b.                      *)
(***************************************************************************)
RECURSIVE Pow2(_)
Pow2(n) == IF n = 0 THEN 1 ELSE 2 * Pow2(n - 1)

\* floor(log2(n)) for an integer n >= 1
RECURSIVE FloorLog2(_)
FloorLog2(n) == IF n < 2 THEN 0 ELSE 1 + FloorLog2(n \div 2)

\* the largest e with 2^e <= a/b, for a, b >= 1
RECURSIVE RatioExpUp(_, _), RatioExpDown(_, _)
RatioExpUp(a, b) == IF a >= 2 * b THEN 1 + RatioExpUp(a, 2 * b) ELSE 0
RatioExpDown(a, b) == IF a >= b THEN 0 ELSE RatioExpDown(2 * a, b) - 1
RatioExp(a, b) == IF a >= b THEN RatioExpUp(a, b) ELSE RatioExpDown(a, b)

\* (a * 2^s) mod m
RECURSIVE ShiftMod(_, _, _)
ShiftMod(a, s, m) == IF s = 0 THEN a % m ELSE (2 * ShiftMod(a, s - 1, m)) % m

FloatSide(p, a, b) ==
    LET e == RatioExp(a, b)
        s == 52 - e
        r == ShiftMod(a, s, b)
        \* N is rounded up when the remainder is above half, or is half
        \* and floor(a * 2^s / b) is odd
        up == \/ 2 * r > b
              \/ 2 * r = b /\ ShiftMod(a, s, 2 * b) >= b
        D == IF up THEN (p * (b - r)) \div b ELSE 0 - ((p * r) \div b)
        h == (2 * p * a) \div b
        eh == FloorLog2(h)
        u == Pow2(eh - 1 - e)
        m == 0 - D
        v == u \div 2
        j == IF 2 * (m % v) < v THEN m \div v
             ELSE IF 2 * (m % v) > v THEN (m \div v) + 1
             ELSE IF (m \div v) % 2 = 0 THEN m \div v ELSE (m \div v) + 1
    IN IF D = 0 THEN 0
       ELSE IF D > 0 THEN (IF 2 * D > u THEN 1 ELSE 0)
       ELSE IF h # Pow2(eh) THEN (IF 2 * m > u THEN -1 ELSE 0)
       ELSE IF u = 1 THEN -1
       ELSE IF j >= 1 THEN -1 ELSE 0

\* int(p * (a / b)) for integers p, a >= 0, b >= 1: truncation toward zero
RECURSIVE PyIntMulDiv(_, _, _)
PyIntMulDiv(p, a, b) ==
    IF p < 0 THEN 0 - PyIntMulDiv(0 - p, a, b)
    ELSE IF p = 0 \/ a = 0 THEN 0
    ELSE IF (p * a) % b # 0 THEN (p * a) \div b
    ELSE IF FloatSide(p, a, b) < 0 THEN ((p * a) \div b) - 1
    ELSE (p * a) \div b

\* int(round(p * (a / b))): Python 3 round(), half to even
RECURSIVE PyRoundMulDiv(_, _, _)
PyRoundMulDiv(p, a, b) ==
    IF p < 0 THEN 0 - PyRoundMulDiv(0 - p, a, b)
    ELSE IF p = 0 \/ a = 0 THEN 0
    ELSE IF (2 * p * a) % b # 0 THEN (2 * p * a + b) \div (2 * b)
    ELSE IF (p * a) % b = 0 THEN (p * a) \div b
    ELSE LET k == (p * a) \div b
             side == FloatSide(p, a, b)
         IN IF side < 0 THEN k
            ELSE IF side > 0 THEN k + 1
            ELSE IF k % 2 = 0 THEN k ELSE k + 1

(***************************************************************************)
(* Mouse positions.  A press lands inside the widget; while the button is  *)
(* held the widget keeps receiving moves and the release, also from        *)
(* outside of it.  Positions are lattice points of the widget (its four    *)
(* corners among them), the two corners of the displayed frame, and one    *)
(* point outside the widget.                                               *)
(***************************************************************************)
LatticePoints ==
    LET X(i) == (i * (widget_size[1] - 1)) \div GridN
        Y(j) == (j * (widget_size[2] - 1)) \div GridN
    IN { QPoint(X(i), Y(i)) : i \in 0..GridN }
         \cup { QPoint(X(i), Y(GridN - i)) : i \in 0..GridN }

OutsidePoint == QPoint(-3, -3)

(***************************************************************************)
(* v1.2 VideoWidget                                                        *)
(***************************************************************************)
\* update_display: the scaled pixmap and the rectangle it is shown in, for
\* an original pixmap pm and a widget of the given size
update_display(pm, size) ==
    LET sz == scaled(pm.w, pm.h, size[1] - DisplayMargin, size[2] - DisplayMargin)
        offset_x == Max(0, (size[1] - sz[1]) \div 2)
        offset_y == Max(0, (size[2] - sz[2]) \div 2)
    IN [pixmap |-> [file |-> pm.file, w |-> sz[1], h |-> sz[2]],
        rect |-> QRectXYWH(offset_x, offset_y, sz[1], sz[2])]

\* get_selection_info: None, or the selection clipped to the displayed frame
get_selection_info ==
    IF ~(/\ PointTruthy(start_pos) /\ PointTruthy(end_pos)
         /\ IsSet(video_display_rect) /\ RectIsValid(Val(video_display_rect))
         /\ IsSet(displayed_pixmap))
    THEN None
    ELSE
      LET selection_rect == normalized(QRectOfPoints(Val(start_pos), Val(end_pos)))
          video_intersect == intersected(selection_rect, Val(video_display_rect))
      IN IF RectWidth(selection_rect) < MinSelection
            \/ RectHeight(selection_rect) < MinSelection
         THEN None
         ELSE IF RectWidth(video_intersect) <= 0 \/ RectHeight(video_intersect) <= 0
         THEN None
         ELSE Some([selection_rect |-> selection_rect,
                    video_intersect |-> video_intersect,
                    relative_pos |->
                        << video_intersect.x1 - Val(video_display_rect).x1,
                           video_intersect.y1 - Val(video_display_rect).y1,
                           RectWidth(video_intersect),
                           RectHeight(video_intersect) >>,
                    display_size |-> << Val(displayed_pixmap).w,
                                        Val(displayed_pixmap).h >>])

(***************************************************************************)
(* v1.2 MainWindow                                                         *)
(***************************************************************************)
\* crop_and_save lines 369-379: the corners in source pixels
crop_corners_v12(info) ==
    LET rel == info.relative_pos
        disp == info.display_size
    IN [x0 |-> Max(0, PyIntMulDiv(rel[1], orig_w, disp[1])),
        y0 |-> Max(0, PyIntMulDiv(rel[2], orig_h, disp[2])),
        x2 |-> Min(orig_w, PyIntMulDiv(rel[1] + rel[3], orig_w, disp[1])),
        y2 |-> Min(orig_h, PyIntMulDiv(rel[2] + rel[4], orig_h, disp[2]))]

\* a crop_and_save without its size check (lines 384-386 left out)
crop_size_unchecked(c) == TRUE

\* crop_and_save lines 381-386: the size check on the mapped rectangle
crop_size_ok_v12(c) == ~(c.x2 - c.x0 <= 0 \/ c.y2 - c.y0 <= 0)

\* update_selection_info lines 282-297: the numbers put into the label
selection_label_v12(info) ==
    LET rel == info.relative_pos
        disp == info.display_size
    IN [kind |-> "selection",
        x |-> PyIntMulDiv(rel[1], orig_w, disp[1]),
        y |-> PyIntMulDiv(rel[2], orig_h, disp[2]),
        w |-> PyIntMulDiv(rel[3], orig_w, disp[1]),
        h |-> PyIntMulDiv(rel[4], orig_h, disp[2])]

EmptyLabel == [kind |-> "empty", x |-> 0, y |-> 0, w |-> 0, h |-> 0]
OutsideLabel == [kind |-> "outside", x |-> 0, y |-> 0, w |-> 0, h |-> 0]

\* what a slot reports in `last`
Did(handler, outcome) ==
    [handler |-> handler, outcome |-> outcome, rect |-> <<>>, out_path |-> "",
     src |-> None, frames |-> 0, in_released |-> FALSE, out_released |-> FALSE]

\* process_crop: whether the frame loop raises.  The only statement of the
\* loop that can raise is the progress line, frame_idx / self.frame_count,
\* reached at every 30th frame.
process_crop_raises(nframes) == nframes >= ProgressEvery /\ frame_count = 0

\* process_crop: the release() calls reached by a run over nframes frames
process_crop_releases(nframes) == ~process_crop_raises(nframes)

\* process_crop(output_path, x, y, width, height).  It runs to its end
\* inside crop_and_save; the events that processEvents() could dispatch
\* while it runs are taken after it.
process_crop(out_path, c) ==
    LET path == Val(video_path)
        nframes == IF FileOpens(path) THEN FileFrames(path) ELSE 0
        raises == process_crop_raises(nframes)
    IN [handler |-> "crop_and_save",
        outcome |-> IF raises THEN "crop_error" ELSE "cropped",
        rect |-> <<c.x0, c.y0, c.x2 - c.x0, c.y2 - c.y0>>,
        out_path |-> out_path,
        src |-> video_path,
        frames |-> IF raises THEN ProgressEvery ELSE nframes,
        in_released |-> process_crop_releases(nframes),
        out_released |-> process_crop_releases(nframes)]

(***************************************************************************)
(* v1.1 VideoWidget and MainWindow                                         *)
(***************************************************************************)
\* contentsRect() of the label: no margin and no border is set in v1.1
contentsRect == QRectXYWH(0, 0, widget_size[1], widget_size[2])

\* get_selection_normalized: None or <<x, y, width, height>>
get_selection_normalized ==
    IF ~(PointTruthy(start_pos) /\ PointTruthy(end_pos)) THEN None
    ELSE LET r == intersected(normalized(QRectOfPoints(Val(start_pos), Val(end_pos))),
                              contentsRect)
         IN IF RectWidth(r) = 0 \/ RectHeight(r) = 0 THEN None
            ELSE Some(<<r.x1, r.y1, RectWidth(r), RectHeight(r)>>)

\* crop_and_save lines 162-173: the selection relative to the pixmap
sel_in_pix_v11(sel) ==
    LET disp_w_pix == Val(pixmap_img).w
        disp_h_pix == Val(pixmap_img).h
        offset_x == Max(0, (widget_size[1] - disp_w_pix) \div 2)
        offset_y == Max(0, (widget_size[2] - disp_h_pix) \div 2)
        sel_x_in_pix == sel[1] - offset_x
        sel_y_in_pix == sel[2] - offset_y
    IN [x |-> sel_x_in_pix,
        y |-> sel_y_in_pix,
        w |-> Min(sel[3], disp_w_pix - sel_x_in_pix),
        h |-> Min(sel[4], disp_h_pix - sel_y_in_pix)]

\* crop_and_save lines 175-177: the check before the mapping
sel_size_ok_v11(sp) == ~(sp.w <= 0 \/ sp.h <= 0)

\* crop_and_save lines 179-184: the corners in source pixels
crop_corners_v11(sp) ==
    [x0 |-> PyRoundMulDiv(sp.x, orig_w, Val(pixmap_img).w),
     y0 |-> PyRoundMulDiv(sp.y, orig_h, Val(pixmap_img).h),
     x2 |-> PyRoundMulDiv(sp.x + sp.w, orig_w, Val(pixmap_img).w),
     y2 |-> PyRoundMulDiv(sp.y + sp.h, orig_h, Val(pixmap_img).h)]

(***************************************************************************)
(* The initial state: the window after MainWindow.__init__ and show().     *)
(***************************************************************************)
Init ==
    /\ version \in {"v1.1", "v1.2"}
    /\ widget_size \in WidgetSizes
    /\ dragging = FALSE
    /\ start_pos = None
    /\ end_pos = None
    /\ original_pixmap = None
    /\ displayed_pixmap = None
    /\ video_display_rect = None
    /\ pixmap_img = None
    /\ video_path = None
    /\ cap = None
    /\ clip = None
    /\ frame_count = 0
    /\ orig_w = 0
    /\ orig_h = 0
    /\ crop_btn = FALSE
    /\ clear_btn = FALSE
    /\ selection_info_label = EmptyLabel
    /\ preview_open = 0
    /\ closed = FALSE
    /\ last = Did("init", "none")

(***************************************************************************)
(* Mouse handlers of VideoWidget (the same code in both versions).         *)
(***************************************************************************)
selection_vars == <<dragging, start_pos, end_pos>>
widget_vars == <<widget_size, original_pixmap, displayed_pixmap,
                 video_display_rect, pixmap_img>>
video_vars == <<video_path, cap, clip, frame_count, orig_w, orig_h,
                preview_open>>
button_vars == <<crop_btn, clear_btn>>

\* the corners of the frame as the widget shows it
DisplayCorners ==
    IF version = "v1.2" /\ IsSet(video_display_rect)
    THEN { QPoint(Val(video_display_rect).x1, Val(video_display_rect).y1),
           QPoint(Val(video_display_rect).x2, Val(video_display_rect).y2) }
    ELSE IF version = "v1.1" /\ IsSet(pixmap_img)
    THEN LET ox == Max(0, (widget_size[1] - Val(pixmap_img).w) \div 2)
             oy == Max(0, (widget_size[2] - Val(pixmap_img).h) \div 2)
         IN { QPoint(ox, oy),
              QPoint(ox + Val(pixmap_img).w - 1, oy + Val(pixmap_img).h - 1) }
    ELSE {}

InWidget(p) ==
    /\ 0 <= p.x /\ p.x < widget_size[1]
    /\ 0 <= p.y /\ p.y < widget_size[2]

PressPoints == { p \in LatticePoints \cup DisplayCorners : InWidget(p) }
DragPoints == PressPoints \cup {OutsidePoint}

\* mousePressEvent with the left button
mousePressEvent(p) ==
    /\ ~closed /\ ~dragging
    /\ dragging' = TRUE
    /\ start_pos' = Some(p)
    /\ end_pos' = Some(p)
    /\ last' = Did("mouse", "none")
    /\ UNCHANGED <<version, widget_vars, video_vars, button_vars,
                   selection_info_label, closed>>

\* mouseMoveEvent
mouseMoveEvent(p) ==
    /\ ~closed /\ dragging
    /\ end_pos' = Some(p)
    /\ last' = Did("mouse", "none")
    /\ UNCHANGED <<version, dragging, start_pos, widget_vars, video_vars,
                   button_vars, selection_info_label, closed>>

\* mouseReleaseEvent with the left button
mouseReleaseEvent(p) ==
    /\ ~closed /\ dragging
    /\ end_pos' = Some(p)
    /\ dragging' = FALSE
    /\ last' = Did("mouse", "none")
    /\ UNCHANGED <<version, start_pos, widget_vars, video_vars, button_vars,
                   selection_info_label, closed>>

\* v1.2 clear_selection (the Clear Selection button)
clear_selection ==
    /\ ~closed /\ version = "v1.2" /\ clear_btn
    /\ start_pos' = None
    /\ end_pos' = None
    /\ last' = Did("clear_selection", "none")
    /\ UNCHANGED <<version, dragging, widget_vars, video_vars, button_vars,
                   selection_info_label, closed>>

\* resizeEvent: v1.2 rescales the frame; v1.1 has no handler, the label
\* only changes its size
resizeEvent(size) ==
    /\ ~closed /\ size # widget_size
    /\ widget_size' = size
    /\ IF version = "v1.2" /\ IsSet(original_pixmap)
       THEN LET d == update_display(Val(original_pixmap), size)
            IN /\ displayed_pixmap' = Some(d.pixmap)
               /\ video_display_rect' = Some(d.rect)
       ELSE UNCHANGED <<displayed_pixmap, video_display_rect>>
    /\ last' = Did("resize", "none")
    /\ UNCHANGED <<version, selection_vars, original_pixmap, pixmap_img,
                   video_vars, button_vars, selection_info_label, closed>>

(***************************************************************************)
(* v1.2 MainWindow slots                                                   *)
(***************************************************************************)
\* cap.release(): the number of open handles it closes
released_by(c) == IF IsSet(c) /\ Val(c).isOpened THEN 1 ELSE 0

\* a load_video that opens the new capture without releasing the old one
load_release_forgotten == released_by(None)

\* load_video lines 303-304: the previous capture is released first
load_release_old == released_by(cap)

\* load_video(path), connected to fileDropped
load_video_v12(path) ==
    /\ ~closed /\ version = "v1.2"
    /\ IF ~FileOpens(path)
       THEN \* isOpened() is false: the exception is raised and caught, the
            \* new (unopened) capture is released and dropped
            /\ cap' = None
            /\ preview_open' = preview_open - load_release_old
            /\ last' = Did("load_video", "error")
            /\ UNCHANGED <<original_pixmap, displayed_pixmap, video_display_rect,
                           video_path, frame_count, orig_w, orig_h, button_vars>>
       ELSE /\ cap' = Some([file |-> path, isOpened |-> TRUE])
            /\ preview_open' = preview_open - load_release_old + 1
            /\ frame_count' = FileFrameCount(path)
            /\ orig_w' = FileWidth(path)
            /\ orig_h' = FileHeight(path)
            /\ IF FileFrames(path) > 0
               THEN \* ret is true: show_frame -> set_video_frame -> update_display
                    LET pm == [file |-> path, w |-> FileWidth(path), h |-> FileHeight(path)]
                        d == update_display(pm, widget_size)
                    IN /\ original_pixmap' = Some(pm)
                       /\ displayed_pixmap' = Some(d.pixmap)
                       /\ video_display_rect' = Some(d.rect)
               ELSE UNCHANGED <<original_pixmap, displayed_pixmap, video_display_rect>>
            /\ video_path' = Some(path)
            /\ clear_btn' = TRUE
            /\ crop_btn' = TRUE
            /\ last' = Did("load_video", "loaded")
    /\ UNCHANGED <<version, widget_size, selection_vars, pixmap_img, clip,
                   selection_info_label, closed>>

\* crop_and_save, the Crop & Save button; out_path is what the save dialog
\* returns if it is shown
crop_and_save_v12(out_path) ==
    /\ ~closed /\ version = "v1.2" /\ crop_btn
    /\ last' =
         IF ~IsSet(cap) THEN Did("crop_and_save", "no_video")
         ELSE IF ~IsSet(get_selection_info) THEN Did("crop_and_save", "no_selection")
         ELSE LET c == crop_corners_v12(Val(get_selection_info))
              IN IF ~crop_size_ok_v12(c) THEN Did("crop_and_save", "invalid_size")
                 ELSE IF out_path = "" THEN Did("crop_and_save", "cancelled")
                 ELSE process_crop(out_path, c)
    /\ UNCHANGED <<version, selection_vars, widget_vars, video_vars, button_vars,
                   selection_info_label, closed>>

\* update_selection_info, run by update_timer every 100 ms
update_selection_info ==
    /\ ~closed /\ version = "v1.2"
    /\ selection_info_label' =
         IF ~PointTruthy(start_pos) \/ ~PointTruthy(end_pos) THEN EmptyLabel
         ELSE IF IsSet(get_selection_info)
              THEN selection_label_v12(Val(get_selection_info))
              ELSE OutsideLabel
    /\ UNCHANGED <<version, selection_vars, widget_vars, video_vars, button_vars,
                   closed, last>>

\* closeEvent
closeEvent_v12 ==
    /\ ~closed /\ version = "v1.2"
    /\ preview_open' = preview_open - released_by(cap)
    /\ cap' = IF IsSet(cap) THEN Some([Val(cap) EXCEPT !.isOpened = FALSE]) ELSE cap
    /\ closed' = TRUE
    /\ last' = Did("closeEvent", "none")
    /\ UNCHANGED <<version, selection_vars, widget_vars, video_path, clip,
                   frame_count, orig_w, orig_h, button_vars, selection_info_label>>

(***************************************************************************)
(* v1.1 MainWindow slots                                                   *)
(***************************************************************************)
\* VideoFileClip(path) reads the first frame while it is constructed: it
\* raises for a file that cannot be opened or decoded
clip_opens(path) == FileOpens(path) /\ FileFrames(path) > 0

\* load_video(path)
load_video_v11(path) ==
    /\ ~closed /\ version = "v1.1"
    /\ IF ~clip_opens(path)
       THEN /\ last' = Did("load_video", "error")
            /\ UNCHANGED <<clip, video_path, orig_w, orig_h, pixmap_img, crop_btn>>
       ELSE LET sz == scaled(FileWidth(path), FileHeight(path),
                             widget_size[1], widget_size[2])
            IN /\ clip' = Some(path)
               /\ video_path' = Some(path)
               /\ orig_w' = FileWidth(path)
               /\ orig_h' = FileHeight(path)
               /\ pixmap_img' = Some([file |-> path, w |-> sz[1], h |-> sz[2]])
               /\ crop_btn' = TRUE
               /\ last' = Did("load_video", "loaded")
    /\ UNCHANGED <<version, widget_size, selection_vars, original_pixmap,
                   displayed_pixmap, video_display_rect, cap, frame_count,
                   clear_btn, selection_info_label, preview_open, closed>>

\* crop_and_save
crop_and_save_v11(out_path) ==
    /\ ~closed /\ version = "v1.1" /\ crop_btn
    /\ last' =
         IF ~IsSet(get_selection_normalized) THEN Did("crop_and_save", "no_selection")
         ELSE IF ~IsSet(pixmap_img) THEN Did("crop_and_save", "no_pixmap")
         ELSE LET sp == sel_in_pix_v11(Val(get_selection_normalized))
                  c == crop_corners_v11(sp)
              IN IF ~sel_size_ok_v11(sp) THEN Did("crop_and_save", "invalid_size")
                 ELSE IF out_path = "" THEN Did("crop_and_save", "cancelled")
                 ELSE \* self.clip.crop(x1=x0, y1=y0, x2=x2, y2=y2), then
                      \* write_videofile(out_path)
                      [Did("crop_and_save", "cropped") EXCEPT
                          !.rect = <<c.x0, c.y0, c.x2 - c.x0, c.y2 - c.y0>>,
                          !.out_path = out_path,
                          !.src = clip]
    /\ UNCHANGED <<version, selection_vars, widget_vars, video_vars, button_vars,
                   selection_info_label, closed>>

\* closing the window (no closeEvent handler in v1.1)
closeEvent_v11 ==
    /\ ~closed /\ version = "v1.1"
    /\ closed' = TRUE
    /\ last' = Did("closeEvent", "none")
    /\ UNCHANGED <<version, selection_vars, widget_vars, video_vars, button_vars,
                   selection_info_label>>

(***************************************************************************)
(* The specifications.                                                     *)
(***************************************************************************)
Next ==
    \/ \E p \in PressPoints : mousePressEvent(p)
    \/ \E p \in DragPoints : mouseMoveEvent(p)
    \/ \E p \in DragPoints : mouseReleaseEvent(p)
    \/ clear_selection
    \/ \E size \in WidgetSizes : resizeEvent(size)
    \/ \E path \in Files : load_video_v12(path)
    \/ \E out_path \in OutPaths : crop_and_save_v12(out_path)
    \/ closeEvent_v12
    \/ \E path \in Files : load_video_v11(path)
    \/ \E out_path \in OutPaths : crop_and_save_v11(out_path)
    \/ closeEvent_v11

\* Every slot but the 100 ms timer of v1.2, which only rewrites a label
Spec == Init /\ [][Next]_vars

\* The selection label of v1.2: the timer slot with the slots it reads from,
\* on one widget size and with the mouse on the corners of the widget and
\* of the displayed frame
InitInfo == Init /\ version = "v1.2" /\ widget_size = <<67, 60>>

InfoPoints ==
    { p \in PressPoints : p \in DisplayCorners \/ (p.x = 0 /\ p.y = 0)
                          \/ (p.x = widget_size[1] - 1 /\ p.y = widget_size[2] - 1) }

NextInfo ==
    \/ \E p \in InfoPoints : mousePressEvent(p)
    \/ \E p \in InfoPoints : mouseMoveEvent(p)
    \/ \E p \in InfoPoints : mouseReleaseEvent(p)
    \/ \E path \in {"a.mp4", "b.mp4"} : load_video_v12(path)
    \/ \E out_path \in OutPaths : crop_and_save_v12(out_path)
    \/ update_selection_info

SpecInfo == InitInfo /\ [][NextInfo]_vars

(***************************************************************************)
(* The claims.                                                             *)
(***************************************************************************)
\* the last slot was a crop_and_save that reached process_crop (v1.2) or
\* clip.crop (v1.1)
Cropped ==
    last.handler = "crop_and_save" /\ last.outcome \in {"cropped", "crop_error"}

\* C1: in v1.2, the rectangle crop_and_save passes to process_crop is not
\* empty and lies inside the source frame: 0 <= x, 0 <= y, width > 0,
\* height > 0, x + width <= orig_w, y + height <= orig_h.
C1_CropInsideFrame ==
    (version = "v1.2" /\ Cropped) =>
        /\ 0 <= last.rect[1] /\ 0 <= last.rect[2]
        /\ last.rect[3] > 0 /\ last.rect[4] > 0
        /\ last.rect[1] + last.rect[3] <= orig_w
        /\ last.rect[2] + last.rect[4] <= orig_h

\* C1 witness: process_crop was reached for a drag that starts outside the
\* displayed frame and ends inside it
C1_Witness ==
    /\ version = "v1.2" /\ Cropped
    /\ Val(start_pos).x < Val(video_display_rect).x1
    /\ Val(end_pos).x > Val(video_display_rect).x1
    /\ Val(end_pos).x < Val(video_display_rect).x2

\* C2: in v1.1, the corners crop_and_save passes to clip.crop satisfy
\* 0 <= x0 < x2 <= orig_w and 0 <= y0 < y2 <= orig_h for every drag inside
\* the label.
C2_CornersInsideFrame ==
    (/\ version = "v1.1" /\ Cropped
     /\ InWidget(Val(start_pos)) /\ InWidget(Val(end_pos))) =>
        /\ 0 <= last.rect[1] /\ last.rect[3] > 0
        /\ last.rect[1] + last.rect[3] <= orig_w
        /\ 0 <= last.rect[2] /\ last.rect[4] > 0
        /\ last.rect[2] + last.rect[4] <= orig_h

\* the overlap of the normalized drag rectangle with the displayed frame
DragRect == normalized(QRectOfPoints(Val(start_pos), Val(end_pos)))
Overlap ==
    [x1 |-> Max(DragRect.x1, Val(video_display_rect).x1),
     y1 |-> Max(DragRect.y1, Val(video_display_rect).y1),
     x2 |-> Min(DragRect.x2, Val(video_display_rect).x2),
     y2 |-> Min(DragRect.y2, Val(video_display_rect).y2)]

\* C3: in v1.2, for every press and release position in the widget, if the
\* normalized drag rectangle is at least 5 x 5 pixels and overlaps the video
\* display rectangle, get_selection_info returns a selection whose
\* relative_pos is that overlap relative to the display rectangle's corner.
C3_SelectionAnywhere ==
    (/\ version = "v1.2" /\ ~dragging
     /\ IsSet(start_pos) /\ IsSet(end_pos) /\ IsSet(video_display_rect)
     /\ InWidget(Val(start_pos)) /\ InWidget(Val(end_pos))
     /\ RectWidth(DragRect) >= MinSelection /\ RectHeight(DragRect) >= MinSelection
     /\ Overlap.x1 <= Overlap.x2 /\ Overlap.y1 <= Overlap.y2) =>
        /\ IsSet(get_selection_info)
        /\ Val(get_selection_info).relative_pos =
              << Overlap.x1 - Val(video_display_rect).x1,
                 Overlap.y1 - Val(video_display_rect).y1,
                 RectWidth(Overlap), RectHeight(Overlap) >>

\* the selection crop_and_save would map
CurrentSelection ==
    IF version = "v1.2" THEN get_selection_info ELSE get_selection_normalized

\* C4: in both versions a video is written only after a load succeeded, a
\* selection was accepted, the mapped rectangle is not empty and the save
\* dialog returned a path; otherwise crop_and_save writes nothing.
C4_WorkflowOrder ==
    Cropped =>
        /\ IsSet(video_path)
        /\ IsSet(CurrentSelection)
        /\ last.rect[3] > 0 /\ last.rect[4] > 0
        /\ last.out_path # ""

\* C4, with the size check each version makes: v1.2 checks the mapped
\* rectangle, v1.1 the selection relative to the pixmap before it is mapped
C4_GatesAsCoded ==
    Cropped =>
        /\ IsSet(video_path) /\ crop_btn
        /\ IsSet(CurrentSelection)
        /\ last.out_path # ""
        /\ IF version = "v1.2"
           THEN /\ IsSet(cap)
                /\ crop_size_ok_v12(crop_corners_v12(Val(get_selection_info)))
           ELSE sel_size_ok_v11(sel_in_pix_v11(Val(get_selection_normalized)))

\* C4, second sentence: crop_and_save, whether it refuses or writes, leaves
\* the loaded video and the selection as they are
C4_CropChangesNothing ==
    [][ last'.handler = "crop_and_save"
        => UNCHANGED <<selection_vars, widget_vars, video_vars, button_vars>> ]_vars

\* the drag goes from the top-left pixel of the displayed frame to its
\* bottom-right pixel, the frame is the one of the loaded video, and it is
\* shown whole
CoversDisplay ==
    /\ ~dragging /\ IsSet(start_pos) /\ IsSet(end_pos) /\ IsSet(video_path)
    /\ DisplayCorners # {}
    /\ \A p \in DisplayCorners : InWidget(p)
    /\ \A p \in DisplayCorners : Val(start_pos).x <= p.x /\ Val(start_pos).y <= p.y
    /\ \A p \in DisplayCorners : Val(end_pos).x >= p.x /\ Val(end_pos).y >= p.y
    /\ Val(start_pos) \in DisplayCorners /\ Val(end_pos) \in DisplayCorners
    /\ IF version = "v1.2"
       THEN Val(original_pixmap).file = Val(video_path)
       ELSE Val(pixmap_img).file = Val(video_path)

\* C5: in each version a drag that exactly covers the displayed frame maps
\* back to the whole source frame: x0 = 0, y0 = 0, x2 = orig_w, y2 = orig_h.
C5_FullFrameRoundTrip ==
    (/\ CoversDisplay
     /\ last.handler = "crop_and_save" /\ last.outcome # "cancelled") =>
        /\ Cropped
        /\ last.rect = <<0, 0, orig_w, orig_h>>

\* C6: in both versions, once load_video has succeeded for a new file, a
\* selection drawn (pressed and released) before that load is no longer in
\* effect: crop_and_save finds no selection.
C6_LoadDropsSelection ==
    [][ (/\ ~dragging /\ IsSet(start_pos)
         /\ last'.handler = "load_video" /\ last'.outcome = "loaded"
         /\ video_path' # video_path)
        => ~IsSet(CurrentSelection') ]_vars

\* C7: in v1.2, process_crop releases the input capture and the output
\* writer on every exit path, the one through the exception handler too.
C7_CropReleasesHandles ==
    (version = "v1.2" /\ Cropped) => (last.in_released /\ last.out_released)

\* C8: in v1.2, at most one preview capture is open at a time and it is
\* self.cap; a failed load leaves self.cap = None and nothing open; nothing
\* is open after closeEvent.
C8_OnePreviewHandle ==
    version = "v1.2" =>
        /\ preview_open <= 1
        /\ preview_open = released_by(cap)
        /\ (last.handler = "load_video" /\ last.outcome = "error")
              => (cap = None /\ preview_open = 0)
        /\ closed => preview_open = 0

\* C8 witness: a file was loaded while the capture of an earlier load was
\* still open (c.mp4 shows no frame: the frame is the earlier file's)
C8_Witness ==
    /\ version = "v1.2"
    /\ last.handler = "load_video" /\ last.outcome = "loaded"
    /\ IsSet(original_pixmap) /\ Val(cap).file = "c.mp4"
    /\ preview_open = 1

\* C9: in v1.2, the position and size shown in the selection label equal
\* the x, y, width, height passed to process_crop for the same selection,
\* displayed size and source size.
C9_LabelIsCropRect ==
    (/\ Cropped
     /\ selection_info_label = selection_label_v12(Val(get_selection_info))) =>
        << selection_info_label.x, selection_info_label.y,
           selection_info_label.w, selection_info_label.h >> = last.rect

\* C10: in v1.2, when crop_and_save passes its "No video loaded" check,
\* video_path, orig_w/orig_h and the frame in the widget are of one file.
C10_OneFile ==
    (/\ version = "v1.2"
     /\ last.handler = "crop_and_save" /\ last.outcome # "no_video") =>
        /\ video_path = Some(Val(cap).file)
        /\ orig_w = FileWidth(Val(video_path))
        /\ orig_h = FileHeight(Val(video_path))
        /\ IsSet(original_pixmap) => Val(original_pixmap).file = Val(video_path)

=============================================================================
